---- MODULE Spec2Model ----
(***************************************************************************)
(* Model of hmc_tomography.Samplers.HMC.sample: the proposal loop, the     *)
(* Metropolis acceptance test, on-line thinning into the RAM buffer, the   *)
(* in-loop and the final flush to the HDF5 dataset, and KeyboardInterrupt. *)
(*                                                                         *)
(* Target, prior and mass matrix are collaborators outside the sampler:    *)
(* the summed misfit is a function of the coordinates chosen at the start  *)
(* of a run, kinetic energies and the integrator's output are drawn from   *)
(* small sets at every proposal.                                           *)
(*                                                                         *)
(* KeyboardInterrupt is asynchronous in Python: it may be raised between   *)
(* any two statements of the try block, flush_samples included.  One       *)
(* interrupt per run is modelled (a second one, raised inside the finally  *)
(* block, is not).                                                         *)
(***************************************************************************)
EXTENDS Integers, Sequences, FiniteSets, TLC

\* ------------------------------------------------------------------ bounds
MaxProposals == 5
MaxThinning == 2
MaxBuffer == 3

\* coordinates = numpy.ones((dimensions, 1)); one dimension is modelled
InitialCoordinate == 1

\* the coordinates the integrator can return (one dimension)
Coords == {1, 2}

\* the kinetic energies the mass matrix returns
Energies == {0, 1}

\* ------------------------------------------------- floating point values
\* IEEE doubles as far as the sampler's arithmetic tells them apart:
\* finite values (integers here), +inf, -inf (val = -1) and NaN.
Fin(n) == [kind |-> "fin", val |-> n]
PosInf == [kind |-> "inf", val |-> 1]
NaN == [kind |-> "nan", val |-> 0]

\* a + b on doubles: inf + (-inf) is NaN, NaN is absorbing
FAdd(a, b) ==
    IF a.kind = "nan" \/ b.kind = "nan" THEN NaN
    ELSE IF a.kind = "inf" /\ b.kind = "inf"
         THEN (IF a.val = b.val THEN a ELSE NaN)
    ELSE IF a.kind = "inf" THEN a
    ELSE IF b.kind = "inf" THEN b
    ELSE Fin(a.val + b.val)

FNeg(a) ==
    IF a.kind = "nan" THEN NaN ELSE [kind |-> a.kind, val |-> 0 - a.val]

\* a - b on doubles: inf - inf is NaN
FSub(a, b) == FAdd(a, FNeg(b))

\* a <= b on doubles (false when either side is NaN)
FLeq(a, b) ==
    IF a.kind = "nan" \/ b.kind = "nan" THEN FALSE
    ELSE IF a.kind = "inf" THEN (a.val = -1 \/ (b.kind = "inf" /\ b.val = 1))
    ELSE IF b.kind = "inf" THEN b.val = 1
    ELSE a.val <= b.val

\* The draws of numpy.random.uniform(0, 1), a value of [0, 1): draw 0 is
\* u = 0.0 and draw j >= 1 is u = exp(-(j - 1/2)), so that for an integer d
\* exp(d) > u  iff  d > -j.
Draws == {0, 1, 2}

\* mutant of ExpGreaterThan: only a proposal that lowers the Hamiltonian passes
ExpGreaterThanDownhillOnly(d, u) ==
    IF d.kind = "nan" THEN FALSE
    ELSE IF d.kind = "inf" THEN d.val = 1
    ELSE d.val > 0

\* numpy.exp(d) > u : exp(NaN) is NaN and compares false with everything,
\* exp(+inf) = +inf, exp(-inf) = 0.0
ExpGreaterThan(d, u) ==
    IF d.kind = "nan" THEN FALSE
    ELSE IF d.kind = "inf" THEN d.val = 1
    ELSE u = 0 \/ d.val > 0 - u

\* values target.misfit + prior.misfit can take: finite inside the support, or
\* +inf outside the bounds of a bounded distribution (misfit_bounds)
MisfitValues == {Fin(0), PosInf}

\* values mass_matrix.kinetic_energy can take
KineticValues == {Fin(n) : n \in Energies}

\* ----------------------------------------------------------------- state
VARIABLES
    proposals,               \* argument of sample()
    online_thinning,         \* argument of sample()
    sample_ram_buffer_size,  \* argument of sample()
    potential_of,            \* coordinates -> target.misfit + prior.misfit
    total_samples,           \* columns of the dataset created by open_hdf5
    pc,                      \* position in sample()
    outcome,                 \* "none", "interrupt" (caught) or "error" (raised)
    proposal,                \* loop variable; -1 while still unbound
    coordinates,             \* chain state
    accepted,                \* acceptance counter
    hamiltonian,
    new_coordinates,
    new_hamiltonian,
    sample_ram_buffer,       \* slot -> record
    dataset,                 \* column -> record
    written,                 \* columns whose data write completed
    end_of_samples,          \* dataset attribute: <<>> while absent, else <<n>>
    start,                   \* arguments of the flush_samples call in progress
    end,
    data_cols,
    decision,                \* outcome of the last acceptance test
    chain,                   \* history: decision and coordinates of each proposal
    put,                     \* history: the coordinate rows put in the buffer
    completed,               \* history: proposals whose loop body finished
    flush_calls,             \* history: <<start, end, data_cols>> of each call
    interrupted_at,          \* history: pc at which the interrupt was raised
    created,                 \* open_hdf5 has created the dataset
    shape,                   \* shape of the dataset; <<>> while there is none
    target_dimensions,       \* target.dimensions
    prior_dimensions,        \* prior.dimensions
    mass_matrix_dimensions,  \* mass_matrix.dimensions
    dimensions,              \* self.dimensions; -1 while not set
    dimension_checks,        \* history: evaluations of the dimension check
    lf,                      \* one proposal with propagate_leapfrog: the arrays
                             \* and the locals of the integrator and its caller
    prior                    \* a distribution object with its bounds, and the
                             \* last call of update_bounds or corrector on it

vars == <<proposals, online_thinning, sample_ram_buffer_size, potential_of,
          total_samples, pc, outcome, proposal, coordinates, accepted,
          hamiltonian, new_coordinates, new_hamiltonian, sample_ram_buffer,
          dataset, written, end_of_samples, start, end, data_cols, decision,
          chain, put, completed, flush_calls, interrupted_at, created, shape,
          target_dimensions, prior_dimensions, mass_matrix_dimensions,
          dimensions, dimension_checks, lf, prior>>

\* what the constructor leaves in the sampler, and its collaborators
sampler == <<target_dimensions, prior_dimensions, mass_matrix_dimensions,
             dimensions, dimension_checks>>

\* what the proposal loop never changes: the sampler, the arguments of
\* sample() and what its preparation created
params == <<proposals, online_thinning, sample_ram_buffer_size, potential_of,
            total_samples, created, shape, sampler, lf, prior>>

\* A buffer slot or dataset column.  cfrom / mfrom name the proposal whose
\* coordinates row / misfit row the slot holds, -1 for memory never written
\* (numpy.empty, a fresh dataset).
Unwritten == [cfrom |-> -1, coords |-> 0, mfrom |-> -1, misfit |-> Fin(0)]

\* ---- int((1.0 / online_thinning) * proposals) in IEEE double arithmetic
\* A positive double is a sequence of bits, most significant first and
\* starting with 1, scaled by a power of two: the value of [bits, scale] is
\* (bits read as a binary integer) * 2^(-scale).

\* bits of the significand of a double
SignificandBits == 53

\* 2^i mod t without leaving the 32-bit integers
RECURSIVE Pow2Mod(_, _)
Pow2Mod(i, t) ==
    IF i <= 20 THEN (2 ^ i) % t ELSE (Pow2Mod(20, t) * Pow2Mod(i - 20, t)) % t

\* the bit of weight 2^(-i) in the binary expansion of 1 / t, i >= 0
ReciprocalBit(i, t) ==
    IF i = 0 THEN (IF t = 1 THEN 1 ELSE 0) ELSE (2 * Pow2Mod(i - 1, t)) \div t

\* the weight of the leading bit of 1 / t is 2^(-LeadingWeight(t))
LeadingWeight(t) == CHOOSE i \in 0..30 : 2 ^ i >= t /\ (i = 0 \/ 2 ^ (i - 1) < t)

\* bits + 1
Increment(bits) ==
    IF \A i \in DOMAIN bits : bits[i] = 1
    THEN <<1>> \o [i \in DOMAIN bits |-> 0]
    ELSE LET k == CHOOSE i \in DOMAIN bits :
                      bits[i] = 0 /\ \A j \in (i + 1)..Len(bits) : bits[j] = 1
         IN [i \in DOMAIN bits |-> IF i < k THEN bits[i] ELSE IF i = k THEN 1 ELSE 0]

\* round to nearest, ties to even, to SignificandBits significant bits; sticky
\* tells that the exact value has bits below the ones given
RoundToDouble(x) ==
    LET L == Len(x.bits)
    IN IF L <= SignificandBits
       THEN [bits |-> x.bits, scale |-> x.scale]
       ELSE LET keep == SubSeq(x.bits, 1, SignificandBits)
                half == x.bits[SignificandBits + 1] = 1
                below == x.sticky \/ \E i \in (SignificandBits + 2)..L : x.bits[i] = 1
                up == half /\ (below \/ keep[SignificandBits] = 1)
            IN [bits |-> IF up THEN Increment(keep) ELSE keep,
                scale |-> x.scale - (L - SignificandBits)]

\* 1.0 / t as a double, t >= 1: one bit more than the significand, rounded
Reciprocal(t) ==
    LET lead == LeadingWeight(t)
    IN RoundToDouble(
          [bits |-> [j \in 1..(SignificandBits + 1) |-> ReciprocalBit(lead + j - 1, t)],
           scale |-> lead + SignificandBits,
           sticky |-> Pow2Mod(lead + SignificandBits, t) # 0])

RECURSIVE BitsToInt(_, _, _)
BitsToInt(bits, i, acc) ==
    IF i > Len(bits) THEN acc ELSE BitsToInt(bits, i + 1, 2 * acc + bits[i])

\* bits of one limb of the long multiplication
LimbBits == 18

\* the limbs of a bit sequence, least significant first, and one empty limb
\* on top for the carry
Limbs(bits) ==
    LET n == Len(bits)
    IN [k \in 0..((n + LimbBits - 1) \div LimbBits) |->
           LET hi == n - LimbBits * k
               lo == IF hi - LimbBits + 1 < 1 THEN 1 ELSE hi - LimbBits + 1
           IN IF hi < 1 THEN 0 ELSE BitsToInt(SubSeq(bits, lo, hi), 1, 0)]

\* the carry into limb k of limbs * P
RECURSIVE CarryInto(_, _, _)
CarryInto(limbs, P, k) ==
    IF k = 0 THEN 0
    ELSE (limbs[k - 1] * P + CarryInto(limbs, P, k - 1)) \div (2 ^ LimbBits)

\* the exact product bits * P, P >= 1, without leading zeros
TimesBits(bits, P) ==
    LET limbs == Limbs(bits)
        prod == [k \in DOMAIN limbs |->
                    (limbs[k] * P + CarryInto(limbs, P, k)) % (2 ^ LimbBits)]
        bit(w) == (prod[w \div LimbBits] \div (2 ^ (w % LimbBits))) % 2
        top == LimbBits * Cardinality(DOMAIN limbs) - 1
        L == 1 + CHOOSE w \in 0..top : bit(w) = 1 /\ \A v \in (w + 1)..top : bit(v) = 0
    IN [j \in 1..L |-> bit(L - j)]

\* x * P as a double, P >= 1
Times(x, P) ==
    RoundToDouble([bits |-> TimesBits(x.bits, P), scale |-> x.scale,
                   sticky |-> FALSE])

\* int(x) for a positive double x: the bits above weight 2^0
IntegerPart(x) ==
    IF Len(x.bits) - x.scale <= 0 THEN 0
    ELSE BitsToInt(SubSeq(x.bits, 1, Len(x.bits) - x.scale), 1, 0)

\* total_samples_to_be_generated = int((1.0 / online_thinning) * proposals)
\* for proposals >= 1 and online_thinning >= 1
TotalSamples(P, t) == IntegerPart(Times(Reciprocal(t), P))

\* int((proposal / online_thinning) % sample_ram_buffer_size)
BufferLocation(p, t, B) == (p \div t) % B

\* mutant of RecordCoordinates: the integrator's output is buffered, whether
\* or not the proposal was accepted
RecordCoordinatesProposed(coords, new_coords) == new_coords

\* the record's coordinates row: coordinates[:, 0], the chain state after the
\* accept/reject decision
RecordCoordinates(coords, new_coords) == coords

PutCoordinates(buf, loc, p, c) ==
    [buf EXCEPT ![loc] = [@ EXCEPT !.cfrom = p, !.coords = c]]

PutMisfit(buf, loc, p, m) ==
    [buf EXCEPT ![loc] = [@ EXCEPT !.mfrom = p, !.misfit = m]]

\* start and end of the in-loop flush
LoopStart(p, t, B) == (p \div t) - B + 1
LoopEnd(p, t) == p \div t

\* start of the final flush
FinalStart(p, t, B) == ((p \div t) \div B) * B

\* mutant of FinalEnd: the last kept record is included in the range
FinalEndInclusive(p, t) == p \div t

\* end of the final flush: one column less than the records kept
FinalEnd(p, t) == (p \div t) - 1

\* mutant of FinalFlushNeeded: the test for a buffer already flushed in the
\* loop is left out
FinalFlushNeededNoEndTest(loc, s, e, B) == e - s + 1 > 0

\* the condition of the final flush
FinalFlushNeeded(loc, s, e, B) == e - s + 1 > 0 /\ loc # B - 1

\* dataset[:, start : end + 1] = data succeeds when the slice lies inside the
\* dataset and data has as many columns as the slice
WriteFits(s, e, n, total) == e + 1 <= total /\ n = e - s + 1

WriteColumns(ds, s, e, buf) ==
    [k \in DOMAIN ds |-> IF s <= k /\ k <= e THEN buf[k - s] ELSE ds[k]]

\* lf while no proposal with the integrator is modelled
NoCall == [pc |-> "none"]

\* prior while no distribution object is modelled
NoPrior == [call |-> "none"]

\* the positions inside the try block
InTry == {"loop", "propose", "accept", "thin", "misfit", "flush_attr", "flush_data"}

\* mutant of RaiseTarget: the loop swallows the exception of a failed write
\* and goes on with the next proposal
RaiseTargetSwallowed(p) == IF p \in InTry THEN "loop" ELSE "done"

\* where an exception that is no KeyboardInterrupt goes: raised inside the
\* try block it passes the except clause and runs the finally block before it
\* leaves sample(); raised anywhere else it leaves sample() at once
RaiseTarget(p) == IF p \in InTry THEN "finally" ELSE "done"

Init ==
    /\ proposals \in 1..MaxProposals
    /\ online_thinning \in 1..MaxThinning
    /\ sample_ram_buffer_size \in 1..MaxBuffer
    /\ potential_of \in [Coords -> MisfitValues]
    /\ total_samples = TotalSamples(proposals, online_thinning)
    /\ pc = "loop"
    /\ outcome = "none"
    /\ proposal = -1
    /\ coordinates = InitialCoordinate
    /\ accepted = 0
    /\ hamiltonian = Fin(0)
    /\ new_coordinates = InitialCoordinate
    /\ new_hamiltonian = Fin(0)
    /\ sample_ram_buffer = [i \in 0..(sample_ram_buffer_size - 1) |-> Unwritten]
    /\ dataset = [k \in 0..(total_samples - 1) |-> Unwritten]
    /\ written = {}
    /\ end_of_samples = <<>>
    /\ start = 0
    /\ end = 0
    /\ data_cols = 0
    /\ decision = "none"
    /\ chain = <<>>
    /\ put = <<>>
    /\ completed = 0
    /\ flush_calls = <<>>
    /\ interrupted_at = "none"
    /\ lf = NoCall
    /\ prior = NoPrior
    /\ created = TRUE
    /\ target_dimensions = 1
    /\ prior_dimensions = 1
    /\ mass_matrix_dimensions = 1
    /\ dimensions = 1
    /\ dimension_checks = 1
    /\ shape = <<dimensions + 1, total_samples>>

\* for proposal in proposals_total
ForIter ==
    /\ pc = "loop"
    /\ IF proposal + 1 < proposals
       THEN /\ proposal' = proposal + 1
            /\ pc' = "propose"
       ELSE /\ proposal' = proposal
            /\ pc' = "finally"
    /\ UNCHANGED <<params, outcome, coordinates, accepted, hamiltonian,
                   new_coordinates, new_hamiltonian, sample_ram_buffer, dataset,
                   written, end_of_samples, start, end, data_cols, decision,
                   chain, put, completed, flush_calls, interrupted_at>>

\* initial Hamiltonian, integrator, resulting Hamiltonian
Propose ==
    /\ pc = "propose"
    /\ \E kinetic \in KineticValues, new_kinetic \in KineticValues, nc \in Coords :
          /\ hamiltonian' = FAdd(potential_of[coordinates], kinetic)
          /\ new_coordinates' = nc
          /\ new_hamiltonian' = FAdd(potential_of[nc], new_kinetic)
    /\ decision' = "none"
    /\ pc' = "accept"
    /\ UNCHANGED <<params, outcome, proposal, coordinates, accepted,
                   sample_ram_buffer, dataset, written, end_of_samples, start,
                   end, data_cols, chain, put, completed, flush_calls, interrupted_at>>

\* the acceptance criterion
Accept ==
    /\ pc = "accept"
    /\ \E u \in Draws :
          IF ExpGreaterThan(FSub(hamiltonian, new_hamiltonian), u)
          THEN /\ accepted' = accepted + 1
               /\ coordinates' = new_coordinates
               /\ decision' = "accept"
          ELSE /\ UNCHANGED <<accepted, coordinates>>
               /\ decision' = "reject"
    /\ chain' = Append(chain, [coords |-> coordinates', decision |-> decision'])
    /\ pc' = "thin"
    /\ UNCHANGED <<params, outcome, proposal, hamiltonian, new_coordinates,
                   new_hamiltonian, sample_ram_buffer, dataset, written,
                   end_of_samples, start, end, data_cols, completed, put,
                   flush_calls, interrupted_at>>

\* if proposal % online_thinning == 0: the coordinates row of the record
Thin ==
    /\ pc = "thin"
    /\ IF proposal % online_thinning # 0
       THEN /\ pc' = "loop"
            /\ completed' = completed + 1
            /\ UNCHANGED <<sample_ram_buffer, put, outcome>>
       ELSE IF sample_ram_buffer_size = 0
       THEN \* (proposal / online_thinning) % 0 raises ZeroDivisionError
            /\ outcome' = "error"
            /\ pc' = RaiseTarget(pc)
            /\ UNCHANGED <<sample_ram_buffer, put, completed>>
       ELSE /\ sample_ram_buffer' =
                  PutCoordinates(sample_ram_buffer,
                      BufferLocation(proposal, online_thinning, sample_ram_buffer_size),
                      proposal, RecordCoordinates(coordinates, new_coordinates))
            /\ put' = Append(put,
                  sample_ram_buffer'[BufferLocation(proposal, online_thinning,
                                                    sample_ram_buffer_size)])
            /\ pc' = "misfit"
            /\ UNCHANGED <<completed, outcome>>
    /\ UNCHANGED <<params, proposal, coordinates, accepted, hamiltonian,
                   new_coordinates, new_hamiltonian, dataset, written,
                   end_of_samples, start, end, data_cols, decision, chain,
                   flush_calls, interrupted_at>>

\* the misfit row of the record, then the test for the end of the buffer
WriteMisfit ==
    /\ pc = "misfit"
    /\ LET loc == BufferLocation(proposal, online_thinning, sample_ram_buffer_size)
       IN /\ sample_ram_buffer' =
                PutMisfit(sample_ram_buffer, loc, proposal, potential_of[coordinates])
          /\ IF loc = sample_ram_buffer_size - 1
             THEN /\ start' = LoopStart(proposal, online_thinning, sample_ram_buffer_size)
                  /\ end' = LoopEnd(proposal, online_thinning)
                  /\ data_cols' = sample_ram_buffer_size
                  /\ flush_calls' = Append(flush_calls, <<start', end', data_cols'>>)
                  /\ pc' = "flush_attr"
                  /\ UNCHANGED completed
             ELSE /\ pc' = "loop"
                  /\ completed' = completed + 1
                  /\ UNCHANGED <<start, end, data_cols, flush_calls>>
    /\ UNCHANGED <<params, outcome, proposal, coordinates, accepted, hamiltonian,
                   new_coordinates, new_hamiltonian, dataset, written,
                   end_of_samples, decision, chain, put, interrupted_at>>

\* flush_samples, first statement: attrs["end_of_samples"] = end + 1
FlushAttr ==
    /\ pc \in {"flush_attr", "final_attr"}
    /\ end_of_samples' = <<end + 1>>
    /\ pc' = IF pc = "flush_attr" THEN "flush_data" ELSE "final_data"
    /\ UNCHANGED <<params, outcome, proposal, coordinates, accepted, hamiltonian,
                   new_coordinates, new_hamiltonian, sample_ram_buffer, dataset,
                   written, start, end, data_cols, decision, chain, put, completed,
                   flush_calls, interrupted_at>>

\* flush_samples, second statement: dataset[:, start : end + 1] = data
FlushData ==
    /\ pc \in {"flush_data", "final_data"}
    /\ WriteFits(start, end, data_cols, total_samples)
    /\ dataset' = WriteColumns(dataset, start, end, sample_ram_buffer)
    /\ written' = written \cup (start..end)
    /\ IF pc = "flush_data"
       THEN /\ pc' = "loop"
            /\ completed' = completed + 1
       ELSE /\ pc' = "done"
            /\ UNCHANGED completed
    /\ UNCHANGED <<params, outcome, proposal, coordinates, accepted, hamiltonian,
                   new_coordinates, new_hamiltonian, sample_ram_buffer,
                   end_of_samples, start, end, data_cols, decision, chain, put,
                   flush_calls, interrupted_at>>

\* the data write raises: the slice does not fit the dataset, or the storage
\* fails.  Nothing is written.
FlushDataFail ==
    /\ pc \in {"flush_data", "final_data"}
    /\ outcome' = "error"
    /\ pc' = RaiseTarget(pc)
    /\ UNCHANGED <<params, proposal, coordinates, accepted, hamiltonian,
                   new_coordinates, new_hamiltonian, sample_ram_buffer, dataset,
                   written, end_of_samples, start, end, data_cols, decision,
                   chain, put, completed, flush_calls, interrupted_at>>

\* KeyboardInterrupt raised inside the try block and caught by the except clause
Interrupt ==
    /\ pc \in InTry
    /\ outcome' = "interrupt"
    /\ interrupted_at' = pc
    /\ pc' = "finally"
    /\ UNCHANGED <<params, proposal, coordinates, accepted, hamiltonian,
                   new_coordinates, new_hamiltonian, sample_ram_buffer, dataset,
                   written, end_of_samples, start, end, data_cols, decision,
                   chain, put, completed, flush_calls>>

\* finally: write out the samples still in the buffer.  With proposal still
\* unbound the block raises NameError, with a buffer of size 0 the buffer
\* location raises ZeroDivisionError.
Finally ==
    /\ pc = "finally"
    /\ IF proposal = -1 \/ sample_ram_buffer_size = 0
       THEN /\ outcome' = "error"
            /\ pc' = "done"
            /\ UNCHANGED <<start, end, data_cols, flush_calls>>
       ELSE LET loc == BufferLocation(proposal, online_thinning, sample_ram_buffer_size)
                s == FinalStart(proposal, online_thinning, sample_ram_buffer_size)
                e == FinalEnd(proposal, online_thinning)
            IN IF FinalFlushNeeded(loc, s, e, sample_ram_buffer_size)
               THEN /\ start' = s
                    /\ end' = e
                    /\ data_cols' = loc
                    /\ flush_calls' = Append(flush_calls, <<s, e, loc>>)
                    /\ pc' = "final_attr"
                    /\ UNCHANGED outcome
               ELSE /\ pc' = "done"
                    /\ UNCHANGED <<outcome, start, end, data_cols, flush_calls>>
    /\ UNCHANGED <<params, proposal, coordinates, accepted, hamiltonian,
                   new_coordinates, new_hamiltonian, sample_ram_buffer, dataset,
                   written, end_of_samples, decision, chain, put, completed,
                   interrupted_at>>

Next ==
    \/ ForIter
    \/ Propose
    \/ Accept
    \/ Thin
    \/ WriteMisfit
    \/ FlushAttr
    \/ FlushData
    \/ FlushDataFail
    \/ Interrupt
    \/ Finally

Spec == Init /\ [][Next]_vars

\* ------------------------------------------- sample() from its first line
\* The preparation of sample() (lines 115-149) step by step, for arguments
\* that may be zero or negative; the loop and the finally block are the
\* actions above.

\* the values of proposals, online_thinning and sample_ram_buffer_size tried
ArgumentValues == {-1, 0, 1, 2}

Abs(n) == IF n < 0 THEN 0 - n ELSE n

\* int((1.0 / online_thinning) * proposals) for online_thinning # 0: division
\* and product round symmetrically in the sign, int() truncates towards zero
IntOfQuotient(P, t) ==
    IF P = 0 THEN 0
    ELSE IF (P > 0) = (t > 0) THEN TotalSamples(Abs(P), Abs(t))
    ELSE 0 - TotalSamples(Abs(P), Abs(t))

InitConfig ==
    /\ proposals \in ArgumentValues
    /\ online_thinning \in ArgumentValues
    /\ sample_ram_buffer_size \in ArgumentValues
    /\ potential_of \in [Coords -> MisfitValues]
    /\ total_samples = 0
    /\ created = FALSE
    /\ pc = "alloc"
    /\ outcome = "none"
    /\ proposal = -1
    /\ coordinates = InitialCoordinate
    /\ accepted = 0
    /\ hamiltonian = Fin(0)
    /\ new_coordinates = InitialCoordinate
    /\ new_hamiltonian = Fin(0)
    /\ sample_ram_buffer = <<>>
    /\ dataset = <<>>
    /\ written = {}
    /\ end_of_samples = <<>>
    /\ start = 0
    /\ end = 0
    /\ data_cols = 0
    /\ decision = "none"
    /\ chain = <<>>
    /\ put = <<>>
    /\ completed = 0
    /\ flush_calls = <<>>
    /\ interrupted_at = "none"
    /\ lf = NoCall
    /\ prior = NoPrior
    /\ target_dimensions = 1
    /\ prior_dimensions = 1
    /\ mass_matrix_dimensions = 1
    /\ dimensions = 1
    /\ dimension_checks = 1
    /\ shape = <<>>

\* self.sample_ram_buffer = numpy.empty((dimensions + 1, sample_ram_buffer_size)):
\* ValueError for a negative size, an array without columns for size 0
AllocBuffer ==
    /\ pc = "alloc"
    /\ IF sample_ram_buffer_size < 0
       THEN /\ outcome' = "error"
            /\ pc' = RaiseTarget(pc)
            /\ UNCHANGED sample_ram_buffer
       ELSE /\ sample_ram_buffer' =
                  [i \in 0..(sample_ram_buffer_size - 1) |-> Unwritten]
            /\ pc' = "total"
            /\ UNCHANGED outcome
    /\ UNCHANGED <<params, proposal, coordinates, accepted, hamiltonian,
                   new_coordinates, new_hamiltonian, dataset, written,
                   end_of_samples, start, end, data_cols, decision, chain, put,
                   completed, flush_calls, interrupted_at>>

\* total_samples_to_be_generated = int((1.0 / online_thinning) * proposals):
\* ZeroDivisionError for online_thinning = 0
ComputeTotal ==
    /\ pc = "total"
    /\ IF online_thinning = 0
       THEN /\ outcome' = "error"
            /\ pc' = RaiseTarget(pc)
            /\ UNCHANGED total_samples
       ELSE /\ total_samples' = IntOfQuotient(proposals, online_thinning)
            /\ pc' = "open"
            /\ UNCHANGED outcome
    /\ UNCHANGED <<proposals, online_thinning, sample_ram_buffer_size,
                   potential_of, created, shape, sampler, lf, prior, proposal,
                   coordinates, accepted,
                   hamiltonian, new_coordinates, new_hamiltonian,
                   sample_ram_buffer, dataset, written, end_of_samples, start,
                   end, data_cols, decision, chain, put, completed, flush_calls,
                   interrupted_at>>

\* open_hdf5: create_dataset(name, (dimensions + 1, length)) raises for a
\* negative length and creates a dataset without columns for length 0
OpenHdf5 ==
    /\ pc = "open"
    /\ IF total_samples < 0
       THEN /\ outcome' = "error"
            /\ pc' = RaiseTarget(pc)
            /\ UNCHANGED <<created, shape, dataset>>
       ELSE /\ created' = TRUE
            /\ shape' = <<dimensions + 1, total_samples>>
            /\ dataset' = [k \in 0..(total_samples - 1) |-> Unwritten]
            /\ pc' = "loop"
            /\ UNCHANGED outcome
    /\ UNCHANGED <<proposals, online_thinning, sample_ram_buffer_size,
                   potential_of, total_samples, sampler, lf, prior, proposal,
                   coordinates, accepted,
                   hamiltonian, new_coordinates, new_hamiltonian,
                   sample_ram_buffer, written, end_of_samples, start, end,
                   data_cols, decision, chain, put, completed, flush_calls,
                   interrupted_at>>

NextConfig ==
    \/ AllocBuffer
    \/ ComputeTotal
    \/ OpenHdf5
    \/ ForIter
    \/ Propose
    \/ Accept
    \/ Thin
    \/ WriteMisfit
    \/ FlushAttr
    \/ FlushData
    \/ FlushDataFail
    \/ Interrupt
    \/ Finally

SpecConfig == InitConfig /\ [][NextConfig]_vars

\* ------------------------------------------------------------ constructor
\* HMC(target, mass_matrix, prior) followed by one call of sample() on the
\* sampler constructed.

MaxDimensions == 4

\* the arguments of the sample() call that follows the construction
ValidArguments == {a \in ArgumentValues : a >= 1}

\* mutant of DimensionsAgree: the mass matrix is left out of the comparison
DimensionsAgreeTargetPrior(t, p, m) == t = p

\* target.dimensions == prior.dimensions == mass_matrix.dimensions
DimensionsAgree(t, p, m) == t = p /\ p = m

InitConstruct ==
    /\ target_dimensions \in 1..MaxDimensions
    /\ prior_dimensions \in 1..MaxDimensions
    /\ mass_matrix_dimensions \in 1..MaxDimensions
    /\ dimensions = -1
    /\ dimension_checks = 0
    /\ proposals \in ValidArguments
    /\ online_thinning \in ValidArguments
    /\ sample_ram_buffer_size \in ValidArguments
    /\ potential_of \in [Coords -> {Fin(0)}]
    /\ total_samples = 0
    /\ created = FALSE
    /\ shape = <<>>
    /\ pc = "init"
    /\ outcome = "none"
    /\ proposal = -1
    /\ coordinates = InitialCoordinate
    /\ accepted = 0
    /\ hamiltonian = Fin(0)
    /\ new_coordinates = InitialCoordinate
    /\ new_hamiltonian = Fin(0)
    /\ sample_ram_buffer = <<>>
    /\ dataset = <<>>
    /\ written = {}
    /\ end_of_samples = <<>>
    /\ start = 0
    /\ end = 0
    /\ data_cols = 0
    /\ decision = "none"
    /\ chain = <<>>
    /\ put = <<>>
    /\ completed = 0
    /\ flush_calls = <<>>
    /\ interrupted_at = "none"
    /\ lf = NoCall
    /\ prior = NoPrior

\* the constructor: the sanity check on the dimensions, then the attributes.
\* When it raises there is no sampler to call sample() on.
Construct ==
    /\ pc = "init"
    /\ dimension_checks' = dimension_checks + 1
    /\ IF ~DimensionsAgree(target_dimensions, prior_dimensions, mass_matrix_dimensions)
       THEN /\ outcome' = "error"
            /\ pc' = "raised"
            /\ UNCHANGED dimensions
       ELSE /\ dimensions' = target_dimensions
            /\ pc' = "alloc"
            /\ UNCHANGED outcome
    /\ UNCHANGED <<proposals, online_thinning, sample_ram_buffer_size,
                   potential_of, total_samples, created, shape, lf, prior,
                   target_dimensions, prior_dimensions, mass_matrix_dimensions,
                   proposal, coordinates, accepted, hamiltonian,
                   new_coordinates, new_hamiltonian, sample_ram_buffer, dataset,
                   written, end_of_samples, start, end, data_cols, decision,
                   chain, put, completed, flush_calls, interrupted_at>>

NextConstruct ==
    \/ Construct
    \/ AllocBuffer
    \/ ComputeTotal
    \/ OpenHdf5
    \/ ForIter
    \/ Propose
    \/ Accept
    \/ Thin
    \/ WriteMisfit
    \/ FlushAttr
    \/ FlushData
    \/ FlushDataFail
    \/ Interrupt
    \/ Finally

SpecConstruct == InitConstruct /\ [][NextConstruct]_vars

\* ------------------------------------------------ shape of the dataset
\* The preparation of sample() alone, on a constructed sampler, for positive
\* arguments up to MaxShapeArgument.

MaxShapeArgument == 49

InitShape ==
    /\ proposals \in 1..MaxShapeArgument
    /\ online_thinning \in 1..MaxShapeArgument
    /\ sample_ram_buffer_size = 1
    /\ dimensions \in 1..MaxDimensions
    /\ target_dimensions = dimensions
    /\ prior_dimensions = dimensions
    /\ mass_matrix_dimensions = dimensions
    /\ dimension_checks = 1
    /\ potential_of \in [Coords -> {Fin(0)}]
    /\ total_samples = 0
    /\ created = FALSE
    /\ shape = <<>>
    /\ pc = "alloc"
    /\ outcome = "none"
    /\ proposal = -1
    /\ coordinates = InitialCoordinate
    /\ accepted = 0
    /\ hamiltonian = Fin(0)
    /\ new_coordinates = InitialCoordinate
    /\ new_hamiltonian = Fin(0)
    /\ sample_ram_buffer = <<>>
    /\ dataset = <<>>
    /\ written = {}
    /\ end_of_samples = <<>>
    /\ start = 0
    /\ end = 0
    /\ data_cols = 0
    /\ decision = "none"
    /\ chain = <<>>
    /\ put = <<>>
    /\ completed = 0
    /\ flush_calls = <<>>
    /\ interrupted_at = "none"
    /\ lf = NoCall
    /\ prior = NoPrior

NextShape ==
    \/ AllocBuffer
    \/ ComputeTotal
    \/ OpenHdf5

SpecShape == InitShape /\ [][NextShape]_vars

\* ------------------------------------------- one proposal, the integrator
\* One proposal of sample() with propagate_leapfrog step by step, in one
\* dimension.  Arrays live in lf.heap and are named by their index, so that a
\* copy and an in-place update (+=, -=, the corrector) can be told apart.
\* All quantities are integers in consistent units: lf.half_step is half the
\* time step (the spec's step size 0.1 is half_step = 1 with time counted in
\* units of 0.05), Hamiltonians are twice the energy.

MaxIterations == 3

\* numpy.random.rand() takes the values r / RandomLevels, r in 0..RandomLevels-1
RandomLevels == 4

\* _iterations(): int(integration_steps * (0.5 + rand)) when the step count is
\* randomized, integration_steps otherwise; int() truncates and the product
\* is positive
_iterations(integration_steps, randomize, r) ==
    IF randomize
    THEN (integration_steps * (RandomLevels + 2 * r)) \div (2 * RandomLevels)
    ELSE integration_steps

\* the values of generate_momentum() and of the coordinates at the proposal
LeapfrogCoordinates == -1..5
LeapfrogMomenta == -2..2
HalfSteps == {-1, 1}

\* lower_bounds / upper_bounds of the prior: None, or one bound per dimension
None == <<>>
BoundChoices == {<<None, None>>, <<<<0>>, <<1>>>>, <<<<0>>, <<4>>>>}

\* target.gradient + prior.gradient and target.misfit + prior.misfit (twice):
\* a flat density, a standard normal, an exponential
GradientKinds == {"flat", "normal", "exponential"}

potential_gradient(kind, c) ==
    CASE kind = "flat" -> 0
      [] kind = "normal" -> c
      [] kind = "exponential" -> 1

TwicePotential(kind, c) ==
    CASE kind = "flat" -> 0
      [] kind = "normal" -> c * c
      [] kind = "exponential" -> 2 * c

\* identity mass matrix: kinetic energy 0.5 p^2 (twice: p^2), gradient p
TwiceKineticEnergy(p) == p * p
kinetic_energy_gradient(p) == p

\* mutant of corrector: the upper bound correction is missing
correctorLowerOnly(c, m, lower, upper) ==
    IF lower # None /\ c < lower[1]
    THEN <<c + 2 * (lower[1] - c), 0 - m>>
    ELSE <<c, m>>

\* corrector on one dimension: the lower bound correction, then the upper
\* bound correction on its result
corrector(c, m, lower, upper) ==
    LET low == IF lower # None /\ c < lower[1]
               THEN <<c + 2 * (lower[1] - c), 0 - m>>
               ELSE <<c, m>>
    IN IF upper # None /\ low[1] > upper[1]
       THEN <<low[1] + 2 * (upper[1] - low[1]), 0 - low[2]>>
       ELSE low

\* array[ref] = v
Store(heap, ref, v) == [heap EXCEPT ![ref] = v]

\* mutant of CopyTarget: the name keeps the array passed in
CopyTargetAlias(ref, fresh) == ref

\* coordinates = coordinates.copy(): the name is bound to the fresh array
CopyTarget(ref, fresh) == fresh

\* c lies beyond a bound by more than the width of the interval
Overshoots(c, lower, upper) ==
    /\ lower # None
    /\ upper # None
    /\ (c < lower[1] - (upper[1] - lower[1]) \/ c > upper[1] + (upper[1] - lower[1]))

\* coordinates += k * half_step * kinetic_energy_gradient(momentum), in place
PositionUpdate(f, k) ==
    LET c == f.heap[f.coordinates]
                + k * f.half_step * kinetic_energy_gradient(f.heap[f.momentum])
    IN [f EXCEPT !.heap = Store(@, f.coordinates, c),
                 !.overshoot = @ \/ Overshoots(c, f.lower_bounds, f.upper_bounds),
                 !.events = Append(@, "position")]

\* coordinates half step before loop
OpeningPositionUpdate(f) == PositionUpdate(f, 1)

\* mutant of ClosingPositionUpdate: a full step closes the trajectory
ClosingPositionUpdateFull(f) == PositionUpdate(f, 2)

\* half step coordinates after loop
ClosingPositionUpdate(f) == PositionUpdate(f, 1)

\* self.prior.corrector(coordinates, momentum), in place
CallCorrector(f) ==
    LET r == corrector(f.heap[f.coordinates], f.heap[f.momentum],
                       f.lower_bounds, f.upper_bounds)
    IN [f EXCEPT !.heap = Store(Store(@, f.coordinates, r[1]), f.momentum, r[2]),
                 !.corrector_calls = @ + 1,
                 !.events = Append(@, "corrector")]

\* mutant of Correct: the corrector is called whether or not the prior is
\* bounded
CorrectUnconditional(f) == CallCorrector(f)

\* if self.prior.bounded: self.prior.corrector(coordinates, momentum)
Correct(f) == IF f.bounded THEN CallCorrector(f) ELSE f

\* potential_gradient = ...; momentum -= time_step * potential_gradient, in place
MomentumUpdate(f) ==
    LET g == potential_gradient(f.gradient, f.heap[f.coordinates])
    IN [f EXCEPT !.heap = Store(@, f.momentum, f.heap[f.momentum] - 2 * f.half_step * g),
                 !.gradient_evaluations = @ + 1,
                 !.momentum_updates = @ + 1,
                 !.events = Append(@, "gradient")]

\* what keeps the value it has while no run of sample() is modelled: everything
\* but lf and prior
Idle ==
    /\ proposals = 1
    /\ online_thinning = 1
    /\ sample_ram_buffer_size = 1
    /\ potential_of = [c \in Coords |-> Fin(0)]
    /\ total_samples = 0
    /\ created = FALSE
    /\ shape = <<>>
    /\ target_dimensions = 1
    /\ prior_dimensions = 1
    /\ mass_matrix_dimensions = 1
    /\ dimensions = 1
    /\ dimension_checks = 1
    /\ pc = "none"
    /\ outcome = "none"
    /\ proposal = -1
    /\ coordinates = InitialCoordinate
    /\ accepted = 0
    /\ hamiltonian = Fin(0)
    /\ new_coordinates = InitialCoordinate
    /\ new_hamiltonian = Fin(0)
    /\ sample_ram_buffer = <<>>
    /\ dataset = <<>>
    /\ written = {}
    /\ end_of_samples = <<>>
    /\ start = 0
    /\ end = 0
    /\ data_cols = 0
    /\ decision = "none"
    /\ chain = <<>>
    /\ put = <<>>
    /\ completed = 0
    /\ flush_calls = <<>>
    /\ interrupted_at = "none"

sample_state_but_prior ==
    <<proposals, online_thinning, sample_ram_buffer_size,
      potential_of, total_samples, created, shape, sampler, pc,
      outcome, proposal, coordinates, accepted, hamiltonian,
      new_coordinates, new_hamiltonian, sample_ram_buffer, dataset,
      written, end_of_samples, start, end, data_cols, decision,
      chain, put, completed, flush_calls, interrupted_at>>

sample_state == <<sample_state_but_prior, prior>>

\* The state at the top of a proposal: the chain coordinates are array 1, the
\* momentum drawn by generate_momentum() is array 2.
InitLeapfrog ==
    /\ Idle
    /\ prior = NoPrior
    /\ \E c \in LeapfrogCoordinates, m \in LeapfrogMomenta, h \in HalfSteps,
          n \in 1..MaxIterations, randomize \in BOOLEAN,
          kind \in GradientKinds, b \in BOOLEAN, bounds \in BoundChoices :
          lf = [pc |-> "proposal",
                heap |-> <<c, m>>,
                chain |-> 1,
                drawn |-> 2,
                given |-> <<c, m>>,
                integration_steps |-> n,
                randomize_integration_steps |-> randomize,
                iterations |-> 0,
                half_step |-> h,
                gradient |-> kind,
                bounded |-> b,
                lower_bounds |-> bounds[1],
                upper_bounds |-> bounds[2],
                calls |-> 0,
                arg_coordinates |-> 0,
                arg_momentum |-> 0,
                arg_values |-> <<>>,
                coordinates |-> 0,
                momentum |-> 0,
                i |-> 0,
                gradient_evaluations |-> 0,
                momentum_updates |-> 0,
                corrector_calls |-> 0,
                overshoot |-> FALSE,
                returned |-> <<>>,
                hamiltonian |-> Fin(0),
                new_hamiltonian |-> Fin(0),
                decision |-> "none",
                accepted |-> 0,
                proposal |-> 0,
                events |-> <<>>]

\* f with propagate_leapfrog entered on the arrays c and m: the parameters
\* name the arrays passed
Enter(f, c, m, h) ==
    [f EXCEPT !.calls = @ + 1,
              !.arg_coordinates = c,
              !.arg_momentum = m,
              !.arg_values = <<f.heap[c], f.heap[m]>>,
              !.coordinates = c,
              !.momentum = m,
              !.half_step = h,
              !.i = 0,
              !.gradient_evaluations = 0,
              !.momentum_updates = 0,
              !.corrector_calls = 0,
              !.overshoot = FALSE,
              !.returned = <<>>,
              !.events = <<>>,
              !.pc = "copy"]

\* compute initial Hamiltonian;
\* propagate(coordinates, momentum, _iterations(), _time_step())
ProposalStart ==
    /\ lf.pc = "proposal"
    /\ \E r \in 0..(RandomLevels - 1) :
          lf' = Enter([lf EXCEPT
                          !.hamiltonian =
                              FAdd(Fin(TwicePotential(lf.gradient, lf.heap[lf.chain])),
                                   Fin(TwiceKineticEnergy(lf.heap[lf.drawn]))),
                          !.iterations =
                              _iterations(lf.integration_steps,
                                          lf.randomize_integration_steps, r)],
                      lf.chain, lf.drawn, lf.half_step)
    /\ UNCHANGED sample_state

\* coordinates = coordinates.copy(); momentum = momentum.copy()
LeapfrogCopy ==
    /\ lf.pc = "copy"
    /\ lf' = [lf EXCEPT
                !.heap = @ \o <<lf.heap[lf.coordinates], lf.heap[lf.momentum]>>,
                !.coordinates = CopyTarget(@, Len(lf.heap) + 1),
                !.momentum = CopyTarget(@, Len(lf.heap) + 2),
                !.pc = "half"]
    /\ UNCHANGED sample_state

\* coordinates half step before loop, correction
LeapfrogHalfStep ==
    /\ lf.pc = "half"
    /\ lf' = [Correct(OpeningPositionUpdate(lf)) EXCEPT !.pc = "loop", !.i = 0]
    /\ UNCHANGED sample_state

\* one pass of  for i in range(iterations - 1)
LeapfrogLoop ==
    /\ lf.pc = "loop"
    /\ lf.i < lf.iterations - 1
    /\ lf' = [Correct(PositionUpdate(MomentumUpdate(lf), 2)) EXCEPT !.i = @ + 1]
    /\ UNCHANGED sample_state

\* full momentum and half step coordinates after loop, correction, return
LeapfrogLast ==
    /\ lf.pc = "loop"
    /\ ~(lf.i < lf.iterations - 1)
    /\ LET f == Correct(ClosingPositionUpdate(MomentumUpdate(lf)))
       IN lf' = [f EXCEPT !.returned = <<f.coordinates, f.momentum>>,
                          !.events = Append(@, "return"),
                          !.pc = "returned"]
    /\ UNCHANGED sample_state

\* compute resulting Hamiltonian, evaluate acceptance criterion
ProposalDecide ==
    /\ lf.pc = "returned"
    /\ lf.calls = 1
    /\ LET new_c == lf.heap[lf.returned[1]]
           new_m == lf.heap[lf.returned[2]]
           new_h == FAdd(Fin(TwicePotential(lf.gradient, new_c)),
                         Fin(TwiceKineticEnergy(new_m)))
       IN \E u \in Draws :
             IF ExpGreaterThan(FSub(lf.hamiltonian, new_h), u)
             THEN lf' = [lf EXCEPT !.new_hamiltonian = new_h,
                                   !.decision = "accept",
                                   !.accepted = @ + 1,
                                   !.heap = Append(@, new_c),
                                   !.chain = Len(lf.heap) + 1,
                                   !.pc = "decided"]
             ELSE lf' = [lf EXCEPT !.new_hamiltonian = new_h,
                                   !.decision = "reject",
                                   !.pc = "decided"]
    /\ UNCHANGED sample_state

\* the reversibility test: propagate_leapfrog again, on the arrays returned,
\* with the same step count and the negated time step
Reverse ==
    /\ lf.pc = "returned"
    /\ lf.calls = 1
    /\ lf' = Enter(lf, lf.returned[1], lf.returned[2], 0 - lf.half_step)
    /\ UNCHANGED sample_state

NextLeapfrog ==
    \/ ProposalStart
    \/ LeapfrogCopy
    \/ LeapfrogHalfStep
    \/ LeapfrogLoop
    \/ LeapfrogLast
    \/ ProposalDecide
    \/ Reverse

SpecLeapfrog == InitLeapfrog /\ [][NextLeapfrog]_vars

\* ------------------------------------------- the chain over several proposals
\* The for loop of sample() around the integrator: after the acceptance
\* criterion the next pass draws a new momentum and proposes again from the
\* chain coordinates.

MaxChainProposals == 2
ChainCoordinates == {0, 1}
ChainMomenta == {-1, 0, 2}

\* mutant of ProposalMomentum: the momentum returned by the integrator is
\* carried into the next proposal
ProposalMomentumCarried(returned, fresh) == returned

\* momentum = self.mass_matrix.generate_momentum(): the name is bound to the
\* array just drawn
ProposalMomentum(returned, fresh) == fresh

\* a prior is bounded exactly when it has bounds
InitChain ==
    /\ InitLeapfrog
    /\ lf.heap[1] \in ChainCoordinates
    /\ lf.heap[2] \in ChainMomenta
    /\ lf.half_step = 1
    /\ lf.bounded <=> lf.lower_bounds # None

\* the next pass of  for proposal in proposals_total  up to the propagate call
ProposalNext ==
    /\ lf.pc = "decided"
    /\ lf.proposal + 1 < MaxChainProposals
    /\ \E m \in ChainMomenta :
          lf' = [lf EXCEPT !.heap = Append(@, m),
                           !.drawn = ProposalMomentum(lf.returned[2], Len(lf.heap) + 1),
                           !.given = <<lf.heap[lf.chain], m>>,
                           !.proposal = @ + 1,
                           !.calls = 0,
                           !.decision = "none",
                           !.pc = "proposal"]
    /\ UNCHANGED sample_state

NextChain ==
    \/ ProposalStart
    \/ LeapfrogCopy
    \/ LeapfrogHalfStep
    \/ LeapfrogLoop
    \/ LeapfrogLast
    \/ ProposalDecide
    \/ ProposalNext

SpecChain == InitChain /\ [][NextChain]_vars

\* ------------------------------------------- a distribution and its bounds
\* _AbstractDistribution: update_bounds and corrector on one object.  A Python
\* value is a record of its type and, for an array or a list, its rows; an
\* array of n rows has shape (n, 1).

PriorDimensions == {1, 2}
BoundValues == {0, 1}
CorrectorCoordinates == -2..3
CorrectorMomenta == {-1, 1}

PyNone == [type |-> "NoneType", rows |-> <<>>]
Array(rows) == [type |-> "ndarray", rows |-> rows]
PyList(rows) == [type |-> "list", rows |-> rows]

Vectors(n, values) == [1..n -> values]

\* the arguments handed to update_bounds: None, a list, or an array of any
\* of the lengths in PriorDimensions
BoundArguments ==
    {PyNone, PyList(<<0>>)}
        \cup {Array(r) : r \in UNION {Vectors(n, BoundValues) : n \in PriorDimensions}}

\* row i of a bounds attribute as corrector on one dimension takes it
BoundOf(b, i) == IF b.type = "NoneType" THEN None ELSE <<b.rows[i]>>

\* mutant of correctorArray: too_high is taken from the coordinates passed in,
\* not from the coordinates after the lower bound correction
correctorArrayIndependent(c, m, lower, upper) ==
    [i \in DOMAIN c |->
        LET low == corrector(c[i], m[i], BoundOf(lower, i), None)
            high == corrector(c[i], m[i], None, BoundOf(upper, i))
        IN IF low # <<c[i], m[i]>> THEN low ELSE high]

\* corrector on arrays of shape (dimensions, 1): the masks too_low and
\* too_high select rows, each row is corrected by itself
correctorArray(c, m, lower, upper) ==
    [i \in DOMAIN c |-> corrector(c[i], m[i], BoundOf(lower, i), BoundOf(upper, i))]

\* bounds.shape != (self.dimensions, 1)
WrongShape(b, d) == b.type # "NoneType" /\ Len(b.rows) # d

\* numpy.any(self.upper_bounds <= self.lower_bounds)
Incompatible(lower, upper) ==
    /\ lower.type # "NoneType"
    /\ upper.type # "NoneType"
    /\ \E i \in DOMAIN lower.rows : upper.rows[i] <= lower.rows[i]

\* the type checks of update_bounds, made before the bounds are set
NotUnderstood(b) == b.type \notin {"NoneType", "ndarray"}

\* the checks of update_bounds made after the bounds are set
RejectedAfterSet(lower, upper, d) ==
    \/ WrongShape(lower, d)
    \/ WrongShape(upper, d)
    \/ Incompatible(lower, upper)

InitDistribution ==
    /\ Idle
    /\ lf = NoCall
    /\ \E d \in PriorDimensions :
          prior = [call |-> "none",
                   dimensions |-> d,
                   lower_bounds |-> PyNone,
                   upper_bounds |-> PyNone,
                   raised |-> "none",
                   old_lower |-> PyNone,
                   old_upper |-> PyNone,
                   arg_coordinates |-> <<>>,
                   arg_momentum |-> <<>>,
                   coordinates |-> <<>>,
                   momentum |-> <<>>]

\* update_bounds(lower_bounds, upper_bounds)
update_bounds ==
    /\ \E lower \in BoundArguments, upper \in BoundArguments :
          LET called == [prior EXCEPT !.call = "update_bounds",
                                      !.old_lower = prior.lower_bounds,
                                      !.old_upper = prior.upper_bounds,
                                      !.arg_coordinates = <<>>,
                                      !.arg_momentum = <<>>,
                                      !.coordinates = <<>>,
                                      !.momentum = <<>>]
          IN IF NotUnderstood(lower) \/ NotUnderstood(upper)
             THEN prior' = [called EXCEPT !.raised = "ValueError"]
             ELSE prior' = [called EXCEPT
                               !.upper_bounds = upper,
                               !.lower_bounds = lower,
                               !.raised = IF RejectedAfterSet(lower, upper, prior.dimensions)
                                          THEN "ValueError"
                                          ELSE "none"]
    /\ UNCHANGED <<sample_state_but_prior, lf>>

\* corrector(coordinates, momentum) on arrays of shape (dimensions, 1).  With
\* bounds of another shape the masked read of the bounds raises before
\* anything is written.
corrector_call ==
    /\ \E c \in Vectors(prior.dimensions, CorrectorCoordinates),
          m \in Vectors(prior.dimensions, CorrectorMomenta) :
          LET called == [prior EXCEPT !.call = "corrector",
                                      !.old_lower = prior.lower_bounds,
                                      !.old_upper = prior.upper_bounds,
                                      !.arg_coordinates = c,
                                      !.arg_momentum = m]
          IN IF WrongShape(prior.lower_bounds, prior.dimensions)
                   \/ WrongShape(prior.upper_bounds, prior.dimensions)
             THEN prior' = [called EXCEPT !.raised = "IndexError",
                                          !.coordinates = c,
                                          !.momentum = m]
             ELSE LET r == correctorArray(c, m, prior.lower_bounds, prior.upper_bounds)
                  IN prior' = [called EXCEPT
                                  !.raised = "none",
                                  !.coordinates = [i \in DOMAIN c |-> r[i][1]],
                                  !.momentum = [i \in DOMAIN c |-> r[i][2]]]
    /\ UNCHANGED <<sample_state_but_prior, lf>>

NextDistribution ==
    \/ update_bounds
    \/ corrector_call

SpecDistribution == InitDistribution /\ [][NextDistribution]_vars

\* the high-water mark read from the dataset: 0 while the attribute is absent
HighWaterMark == IF end_of_samples = <<>> THEN 0 ELSE end_of_samples[1]

TypeOK ==
    /\ pc \in {"loop", "propose", "accept", "thin", "misfit", "flush_attr",
               "flush_data", "finally", "final_attr", "final_data", "done"}
    /\ outcome \in {"none", "interrupt", "error"}
    /\ proposal \in -1..(proposals - 1)
    /\ coordinates \in Coords
    /\ accepted \in 0..proposals
\* ------------------------------------------------------- reference run
\* The dataset an uninterrupted, failure-free sample() call leaves with
\* proposals = n and the accept/reject outcomes recorded in chain: the loop
\* body's thinning, buffering and in-loop flush for proposals 0 .. n-1, then
\* the finally block.  ok is FALSE once a data write has raised.
RefInit(n) ==
    [buf |-> [i \in 0..(sample_ram_buffer_size - 1) |-> Unwritten],
     ds |-> [k \in 0..(TotalSamples(n, online_thinning) - 1) |-> Unwritten],
     wr |-> {}, eos |-> <<>>, ok |-> TRUE]

RefFlush(st, s, e, n, total) ==
    IF WriteFits(s, e, n, total)
    THEN [st EXCEPT !.ds = WriteColumns(st.ds, s, e, st.buf),
                    !.wr = st.wr \cup (s..e), !.eos = <<e + 1>>]
    ELSE [st EXCEPT !.eos = <<e + 1>>, !.ok = FALSE]

RefBody(st, p, total) ==
    IF ~st.ok \/ p % online_thinning # 0 THEN st
    ELSE LET loc == BufferLocation(p, online_thinning, sample_ram_buffer_size)
             c == chain[p + 1].coords
             st1 == [st EXCEPT !.buf = PutMisfit(PutCoordinates(st.buf, loc, p, c),
                                                 loc, p, potential_of[c])]
         IN IF loc = sample_ram_buffer_size - 1
            THEN RefFlush(st1, LoopStart(p, online_thinning, sample_ram_buffer_size),
                          LoopEnd(p, online_thinning), sample_ram_buffer_size, total)
            ELSE st1

RECURSIVE RefLoop(_, _, _)
RefLoop(st, p, n) ==
    IF p >= n THEN st
    ELSE RefLoop(RefBody(st, p, TotalSamples(n, online_thinning)), p + 1, n)

RefFinally(st, n) ==
    LET p == n - 1
        loc == BufferLocation(p, online_thinning, sample_ram_buffer_size)
        s == FinalStart(p, online_thinning, sample_ram_buffer_size)
        e == FinalEnd(p, online_thinning)
    IN IF FinalFlushNeeded(loc, s, e, sample_ram_buffer_size)
       THEN RefFlush(st, s, e, loc, TotalSamples(n, online_thinning))
       ELSE st

ReferenceRun(n) == RefFinally(RefLoop(RefInit(n), 0, n), n)

\* ------------------------------------------------------------- helpers
Returned == pc = "done"

OutsideFlush == pc \notin {"flush_data", "final_data"}

\* the thinned index (dataset column) of proposal p
ColumnOf(p) == p \div online_thinning

\* the record sample() builds at proposal p
RecordOf(p) ==
    [cfrom |-> p, coords |-> chain[p + 1].coords,
     mfrom |-> p, misfit |-> potential_of[chain[p + 1].coords]]

Complete(slot) == slot.cfrom >= 0 /\ slot.mfrom = slot.cfrom

Covered(k) == \E j \in 1..Len(flush_calls) :
                 flush_calls[j][1] <= k /\ k <= flush_calls[j][2]
\* ============================================================== claims

\* C1: after sample() has run all its proposals without interruption, with
\* online_thinning dividing proposals, exactly proposals / online_thinning
\* columns are written and the end_of_samples attribute equals that number,
\* for every buffer size.
C1_CompletedRunWritesAll ==
    (Returned /\ outcome = "none" /\ proposals % online_thinning = 0)
        => /\ Cardinality(written) = proposals \div online_thinning
           /\ end_of_samples = <<proposals \div online_thinning>>

\* C2: a run interrupted while the proposal counter is p holds exactly
\* floor(p / online_thinning) written columns when sample() returns, for
\* every buffer size and every point of the loop body.
C2_InterruptedRunColumns ==
    (Returned /\ outcome = "interrupt")
        => Cardinality(written) = proposal \div online_thinning

\* C3: whenever control is outside flush_samples, the end_of_samples
\* attribute equals the number of dataset columns that hold written data.
C3_HighWaterMarkIsWritten ==
    OutsideFlush => HighWaterMark = Cardinality(written)

\* C4: when sample() returns, the number of columns written equals
\* floor(last_proposal / online_thinning) + 1, last_proposal being the index
\* of the last proposal executed.
C4_AllThinnedSamplesPersisted ==
    (Returned /\ outcome \in {"none", "interrupt"} /\ completed >= 1)
        => Cardinality(written) = ColumnOf(completed - 1) + 1

\* C5: every column k below the high-water mark holds the record buffered at
\* proposal k * online_thinning (coordinates after the decision and the
\* misfit at them), and no such column holds another record or unwritten data.
C5_ColumnsHoldTheirRecord ==
    OutsideFlush =>
        \A k \in 0..(HighWaterMark - 1) :
            /\ k \in DOMAIN dataset
            /\ k \in written
            /\ k * online_thinning < Len(chain)
            /\ dataset[k] = RecordOf(k * online_thinning)

\* C6: a buffer slot is overwritten by a later record only after the record
\* it held has been written to the dataset, and the column ranges of any two
\* flush_samples calls of one run are disjoint.
C6_SlotFlushedBeforeOverwrite ==
    \A i \in DOMAIN sample_ram_buffer :
        (sample_ram_buffer'[i] # sample_ram_buffer[i] /\ sample_ram_buffer[i].cfrom >= 0
            /\ sample_ram_buffer'[i].cfrom # sample_ram_buffer[i].cfrom)
        => /\ Complete(sample_ram_buffer[i])
           /\ ColumnOf(sample_ram_buffer[i].cfrom) \in written
           /\ dataset[ColumnOf(sample_ram_buffer[i].cfrom)] = sample_ram_buffer[i]

C6_FlushRangesDisjoint ==
    \A i, j \in 1..Len(flush_calls) :
        i # j => \/ flush_calls[i][2] < flush_calls[j][1]
                 \/ flush_calls[j][2] < flush_calls[i][1]

\* C6: in every state the column ranges of the flush_samples calls made so far
\* are pairwise disjoint, and every step that overwrites a buffer slot finds the
\* record it held already written to the dataset.
C6_NoLossNoDuplicate ==
    [](C6_FlushRangesDisjoint) /\ [][C6_SlotFlushedBeforeOverwrite]_vars

\* C6 witness: the buffer has wrapped around (a slot holds a record of the
\* second pass) and an in-loop flush has been followed by a final flush.
C6_Witness ==
    /\ Returned
    /\ Len(flush_calls) >= 2
    /\ flush_calls[Len(flush_calls)][3] < sample_ram_buffer_size
    /\ \E i \in DOMAIN sample_ram_buffer :
          ColumnOf(sample_ram_buffer[i].cfrom) >= sample_ram_buffer_size

\* C7: when the loop ends, normally or by KeyboardInterrupt, flush_samples is
\* called before sample() returns for every complete record the buffer holds
\* that has not been flushed.
C7_FinalFlushCoversBuffer ==
    (Returned /\ outcome \in {"none", "interrupt"}) =>
        \A i \in DOMAIN sample_ram_buffer :
            Complete(sample_ram_buffer[i]) =>
                \/ ColumnOf(sample_ram_buffer[i].cfrom) \in written
                \/ Covered(ColumnOf(sample_ram_buffer[i].cfrom))

\* C8: a run interrupted after n completed proposals leaves the same written
\* columns and the same high-water mark as an uninterrupted run with
\* proposals = n and the same accept/reject outcomes.
C8_InterruptLikeShorterRun ==
    (Returned /\ outcome = "interrupt" /\ interrupted_at \in {"loop", "propose"}
        /\ completed >= 1 /\ ReferenceRun(completed).ok)
    => LET ref == ReferenceRun(completed)
       IN /\ ref.wr = written
          /\ ref.eos = end_of_samples
          /\ \A k \in written : ref.ds[k] = dataset[k]

\* C9: every proposal p with p mod online_thinning = 0 puts exactly one record
\* in the buffer, built from the coordinates after that proposal's decision;
\* after a rejection they are the chain state before the proposal; no thinned
\* index is skipped.
C9_OneRecordPerThinnedProposal ==
    /\ \A j \in 1..Len(put) :
          LET p == (j - 1) * online_thinning
          IN /\ p < Len(chain)
             /\ put[j].cfrom = p
             /\ put[j].coords = chain[p + 1].coords
             /\ chain[p + 1].decision = "reject" =>
                   put[j].coords = (IF p = 0 THEN InitialCoordinate ELSE chain[p].coords)
    /\ \A p \in 0..(completed - 1) :
          p % online_thinning = 0 => ColumnOf(p) + 1 <= Len(put)
    /\ Len(put) <= ColumnOf(Len(chain) - 1) + 1

\* C9 witness: a thinned proposal other than the first was rejected while the
\* integrator proposed other coordinates, and its record has been buffered.
C9_Witness ==
    /\ Len(put) >= 2
    /\ Len(chain) = (Len(put) - 1) * online_thinning + 1
    /\ chain[Len(chain)].decision = "reject"
    /\ new_coordinates # coordinates
    /\ pc = "loop"

\* C10: every proposal whose new Hamiltonian is at most the old one is
\* accepted, whatever the uniform draw, also when both are +infinity.
C10_DownhillAlwaysAccepted ==
    (decision # "none" /\ FLeq(new_hamiltonian, hamiltonian)) => decision = "accept"

\* C11: once a flush_samples write has failed no further proposal is executed,
\* the error stays raised until sample() is left, and every dataset column
\* written by an earlier successful flush keeps its data.
C11_WriteFailureAborts ==
    [][(outcome = "error" \/ outcome' = "error")
          => /\ outcome = "error" => outcome' = "error"
             /\ outcome = "error" => (pc' \in {"finally", "done"} /\ proposal' = proposal)
             /\ chain' = chain
             /\ sample_ram_buffer' = sample_ram_buffer
             /\ \A k \in written : k \in written' /\ dataset'[k] = dataset[k]]_vars

\* C11 witness: the write of a flush inside the loop failed after an earlier
\* flush had succeeded, and sample() has been left with the error.
C11_Witness ==
    /\ Returned
    /\ outcome = "error"
    /\ interrupted_at = "none"
    /\ written # {}
    /\ Len(flush_calls) >= 2
    /\ Len(chain) < proposals

\* C13: a proposal whose initial or resulting Hamiltonian is not finite (the
\* target or the prior returned a non-finite misfit) ends the run with an
\* error: the engine neither records that proposal's sample nor goes on to
\* the next proposal.
C13_NonFiniteMisfitIsFatal ==
    pc \in {"thin", "misfit", "flush_attr", "flush_data", "loop", "propose"}
        => hamiltonian.kind = "fin" /\ new_hamiltonian.kind = "fin"

\* C20: an interrupt stops the loop only between two proposals: when the
\* except clause has caught it, every proposal that was decided has finished
\* its loop body, every buffer slot holds both rows of one proposal, and every
\* column below the high-water mark has its data.
C20_InterruptAtProposalBoundary ==
    (outcome = "interrupt" /\ pc = "finally")
    => /\ Len(chain) = completed
       /\ \A i \in DOMAIN sample_ram_buffer :
             sample_ram_buffer[i].cfrom = sample_ram_buffer[i].mfrom
       /\ \A k \in 0..(HighWaterMark - 1) : k \in written

\* C12: sample() called with proposals, online_thinning or
\* sample_ram_buffer_size zero or negative fails before the dataset is created
\* and before the first proposal is executed.
C12_InvalidArgumentsFailEarly ==
    (proposals < 1 \/ online_thinning < 1 \/ sample_ram_buffer_size < 1)
    => /\ ~created
       /\ chain = <<>>
       /\ pc \in {"alloc", "total", "open", "done"}
       /\ pc = "done" => outcome = "error"

\* C14: constructing the sampler with a target, prior and mass matrix whose
\* dimensions are not all equal raises at construction, so sample() executes
\* no step on a sampler whose collaborators disagree; the dimensions are
\* checked once, in the constructor, and never again.
C14_DimensionMismatchRaisesOnce ==
    /\ (target_dimensions # prior_dimensions
           \/ prior_dimensions # mass_matrix_dimensions
           \/ target_dimensions # mass_matrix_dimensions)
          => /\ pc \in {"init", "raised"}
             /\ pc = "raised" => outcome = "error"
             /\ dimensions = -1
             /\ chain = <<>>
             /\ ~created
    /\ pc \notin {"init", "raised"} => dimensions = target_dimensions
    /\ dimension_checks = (IF pc = "init" THEN 0 ELSE 1)

\* C14 witness: target and prior agree, the mass matrix does not, and the
\* constructor has raised.
C14_Witness ==
    /\ pc = "raised"
    /\ outcome = "error"
    /\ target_dimensions = prior_dimensions
    /\ prior_dimensions # mass_matrix_dimensions

\* C15: for all positive proposals and online_thinning the dataset sample()
\* creates has dimensions + 1 rows and floor(proposals / online_thinning)
\* columns.
C15_DatasetShape ==
    created => shape = <<dimensions + 1, proposals \div online_thinning>>

\* C16 (as stated): propagate_leapfrog applied to the output of
\* propagate_leapfrog(c, m, steps, step_size), with the same step count and
\* the negated step size, returns (c, -m).
C16_ReversalNegatesMomentum ==
    (lf.pc = "returned" /\ lf.calls = 2)
    => /\ lf.heap[lf.returned[1]] = lf.given[1]
       /\ lf.heap[lf.returned[2]] = 0 - lf.given[2]

\* C16 (amended): when the prior is not bounded, or has no bounds set,
\* propagate_leapfrog applied to the output of propagate_leapfrog(c, m, steps,
\* step_size), with the same step count and the negated step size, returns
\* (c, m): the momentum comes back as it was, not negated.
C16_ReversalRestoresState ==
    (lf.pc = "returned" /\ lf.calls = 2
        /\ (~lf.bounded \/ (lf.lower_bounds = None /\ lf.upper_bounds = None)))
    => /\ lf.heap[lf.returned[1]] = lf.given[1]
       /\ lf.heap[lf.returned[2]] = lf.given[2]

\* C16 witness: a trajectory of several steps in a normal density that moved
\* both coordinate and momentum, a non-zero momentum at the start, and the
\* reverse call has returned.
C16_Witness ==
    /\ lf.pc = "returned"
    /\ lf.calls = 2
    /\ ~lf.bounded
    /\ lf.gradient = "normal"
    /\ lf.iterations >= 2
    /\ lf.given[2] # 0
    /\ lf.arg_values[1] # lf.given[1]
    /\ lf.arg_values[2] # lf.given[2]
    /\ lf.heap[lf.returned[2]] = lf.given[2]

\* C17: for a bounded prior with a lower and an upper bound, and any step
\* count, the coordinate propagate_leapfrog returns lies in [lower, upper],
\* provided no position update of the call left the coordinate beyond a bound
\* by more than upper - lower.
C17_ReturnedCoordinateInBounds ==
    (lf.pc = "returned" /\ lf.bounded /\ lf.lower_bounds # None
        /\ lf.upper_bounds # None /\ ~lf.overshoot)
    => /\ lf.lower_bounds[1] <= lf.heap[lf.returned[1]]
       /\ lf.heap[lf.returned[1]] <= lf.upper_bounds[1]

\* C17 witness: the spec's case lower = 0, upper = 1, a flat density, several
\* steps without overshoot, and the momentum came back reflected.
C17_Witness ==
    /\ lf.pc = "returned"
    /\ lf.calls = 1
    /\ lf.bounded
    /\ lf.lower_bounds = <<0>>
    /\ lf.upper_bounds = <<1>>
    /\ ~lf.overshoot
    /\ lf.gradient = "flat"
    /\ lf.iterations >= 2
    /\ lf.given[2] # 0
    /\ lf.heap[lf.returned[2]] = 0 - lf.given[2]

\* C18: propagate_leapfrog never changes the arrays passed to it, also when
\* the prior is bounded and the corrector rewrites coordinates and momentum in
\* place; the arrays it returns are other arrays than its arguments, and the
\* chain coordinates of the engine are unchanged by the call.
C18_ArgumentsNotMutated ==
    lf.calls >= 1
    => /\ lf.heap[lf.arg_coordinates] = lf.arg_values[1]
       /\ lf.heap[lf.arg_momentum] = lf.arg_values[2]
       /\ lf.pc # "decided" => lf.heap[lf.chain] = lf.given[1]
       /\ lf.pc = "returned"
             => /\ lf.returned[1] \notin {lf.arg_coordinates, lf.arg_momentum}
                /\ lf.returned[2] \notin {lf.arg_coordinates, lf.arg_momentum}
                /\ lf.returned[1] # lf.returned[2]

\* C18 witness: a call on a bounded prior has returned, the corrector ran at
\* least twice, and both returned values differ from the values passed in.
C18_Witness ==
    /\ lf.pc = "returned"
    /\ lf.bounded
    /\ lf.lower_bounds # None
    /\ lf.corrector_calls >= 2
    /\ lf.heap[lf.returned[1]] # lf.arg_values[1]
    /\ lf.heap[lf.returned[2]] = 0 - lf.arg_values[2]
    /\ lf.arg_values[2] # 0
    /\ lf.gradient = "flat"

\* the free-particle scenario: flat target and prior, unbounded, identity mass
\* matrix, coordinate 1.0, momentum 0.0, one step, step size 0.1
FreeParticle ==
    /\ lf.gradient = "flat"
    /\ ~lf.bounded
    /\ lf.lower_bounds = None
    /\ lf.upper_bounds = None
    /\ lf.given = <<1, 0>>
    /\ lf.iterations = 1
    /\ lf.calls <= 1
    /\ lf.half_step = 1

\* C19: in the free-particle scenario the proposed coordinate is 1.0, the
\* Hamiltonian is 0.0 before and after, and the proposal is accepted whatever
\* the uniform draw.
C19_FreeParticleAccepted ==
    FreeParticle
    => /\ lf.calls = 1 => lf.hamiltonian = Fin(0)
       /\ lf.pc = "returned" => lf.heap[lf.returned[1]] = 1
       /\ lf.pc = "decided"
             => /\ lf.new_hamiltonian = Fin(0)
                /\ lf.decision = "accept"
                /\ lf.accepted = 1
                /\ lf.heap[lf.chain] = 1

\* C19 witness: the free-particle proposal has been integrated and decided.
C19_Witness ==
    /\ FreeParticle
    /\ lf.pc = "decided"
    /\ lf.gradient_evaluations = 1
    /\ lf.heap[lf.returned[1]] = 1
    /\ lf.decision = "accept"

\* the flush_samples calls made inside the loop: they pass the whole buffer
InLoopCalls == {j \in 1..Len(flush_calls) : flush_calls[j][3] = sample_ram_buffer_size}

\* C21: during the loop the record of thinned index k is stored in slot
\* k mod B (so the record after slot B-1 goes to slot 0); an in-loop flush is
\* called exactly when slot B-1 has just been filled, for the columns
\* k-B+1 .. k, which exist in the dataset, and when the call has finished
\* these columns hold the B buffered records.
C21_BufferSlotsAndInLoopFlush ==
    outcome = "none" =>
      /\ \A i \in DOMAIN sample_ram_buffer :
            sample_ram_buffer[i].cfrom >= 0
               => (sample_ram_buffer[i].cfrom \div online_thinning)
                      % sample_ram_buffer_size = i
      /\ pc \in InTry =>
            Cardinality(InLoopCalls) =
               (IF pc = "misfit" THEN Len(put) - 1 ELSE Len(put)) \div sample_ram_buffer_size
      /\ \A j \in InLoopCalls :
            /\ flush_calls[j][1] = (j - 1) * sample_ram_buffer_size
            /\ flush_calls[j][2] = j * sample_ram_buffer_size - 1
            /\ flush_calls[j][2] < total_samples
            /\ (j < Len(flush_calls) \/ pc \notin {"flush_attr", "flush_data"})
                  => \A k \in flush_calls[j][1]..flush_calls[j][2] :
                        /\ k \in written
                        /\ dataset[k] = RecordOf(k * online_thinning)

\* C22: every flush_samples call of a run starts at the column where the
\* previous call ended (column 0 for the first) and ends no earlier than it
\* starts, so that the high-water mark never decreases, and outside
\* flush_samples the written columns are exactly the columns below the
\* high-water mark.
C22_WrittenColumnsArePrefix ==
    /\ \A j \in 1..Len(flush_calls) :
          /\ flush_calls[j][1] = (IF j = 1 THEN 0 ELSE flush_calls[j - 1][2] + 1)
          /\ flush_calls[j][2] >= flush_calls[j][1]
    /\ HighWaterMark \in {0} \cup {flush_calls[j][2] + 1 : j \in 1..Len(flush_calls)}
    /\ OutsideFlush => written = 0..(HighWaterMark - 1)

\* C23: every flush_samples call addresses only columns in [0, total_samples),
\* only such columns are ever written, and the high-water mark never exceeds
\* total_samples = floor(proposals / online_thinning).
C23_FlushesStayInsideDataset ==
    /\ total_samples = proposals \div online_thinning
    /\ \A j \in 1..Len(flush_calls) :
          /\ 0 <= flush_calls[j][1]
          /\ flush_calls[j][2] < total_samples
    /\ written \subseteq 0..(total_samples - 1)
    /\ HighWaterMark <= total_samples

\* C24: in every flush_samples(start, end, data) call the number of buffer
\* columns passed as data equals end - start + 1, for the flush inside the loop
\* and for the flush of the finally block.
C24_FlushedColumnsMatchRange ==
    \A j \in 1..Len(flush_calls) :
        flush_calls[j][3] = flush_calls[j][2] - flush_calls[j][1] + 1

\* a finished run with a full buffer flushed in the loop and a partly filled
\* buffer flushed by the finally block
C24_Witness ==
    /\ pc = "done"
    /\ outcome = "none"
    /\ Len(flush_calls) = 2
    /\ flush_calls[1][3] = sample_ram_buffer_size
    /\ flush_calls[2][3] \in 1..(sample_ram_buffer_size - 1)
    /\ flush_calls[2][1] \in written

\* C25: the acceptance step leaves the chain coordinates equal to the
\* integrator's output when the proposal is accepted and unchanged when it is
\* rejected, no other step of the loop changes them, and the momentum handed to
\* the integrator is the one drawn for that proposal, never the one returned
\* by the previous proposal.
C25_ChainFollowsDecision ==
    [][LET before == lf.heap[lf.chain]
           after == lf'.heap[lf'.chain]
       IN /\ IF lf.pc = "returned" /\ lf'.pc = "decided"
             THEN after = (IF lf'.decision = "accept"
                           THEN lf.heap[lf.returned[1]]
                           ELSE before)
             ELSE after = before
          /\ (lf.pc = "proposal" /\ lf'.pc = "copy")
                => /\ lf'.arg_values = lf.given
                   /\ lf.given[1] = before
                   /\ lf'.arg_momentum = Len(lf.heap)
                   /\ (lf.proposal > 0 => lf'.arg_momentum # lf.returned[2])]_vars

\* a second proposal rejected after a first one was accepted and moved the
\* chain, the integrator having returned a non-zero momentum
C25_Witness ==
    /\ lf.pc = "decided"
    /\ lf.proposal = 1
    /\ lf.decision = "reject"
    /\ lf.accepted = 1
    /\ lf.heap[lf.chain] # lf.heap[1]
    /\ lf.heap[lf.returned[1]] # lf.heap[lf.chain]
    /\ lf.heap[lf.returned[2]] # 0

\* C26: a call of propagate_leapfrog with step count n evaluates the potential
\* gradient exactly n times and updates the momentum exactly n times, for
\* every step count that sample() passes.
C26_GradientEvaluationsEqualSteps ==
    lf.pc \in {"returned", "decided"}
        => /\ lf.gradient_evaluations = lf.iterations
           /\ lf.momentum_updates = lf.iterations

\* C29: the step count passed to the integrator is an integer of at least 1:
\* with randomization it is the truncation of a value in [0.5, 1.5) times the
\* nominal count and is never 0, without randomization it is the nominal count.
C29_StepCountAtLeastOne ==
    lf.calls >= 1
        => /\ lf.iterations >= 1
           /\ IF lf.randomize_integration_steps
              THEN /\ 2 * lf.iterations < 3 * lf.integration_steps
                   /\ 2 * lf.iterations + 2 > lf.integration_steps
              ELSE lf.iterations = lf.integration_steps

\* C27: within a call of propagate_leapfrog on a bounded prior every position
\* update is followed by exactly one corrector call before the next gradient
\* evaluation or the return, and the corrector is called nowhere else; on an
\* unbounded prior the corrector is never called.
C27_CorrectorFollowsPositionUpdate ==
    LET e == lf.events
    IN /\ \A k \in DOMAIN e :
             /\ e[k] = "corrector" => (lf.bounded /\ k > 1 /\ e[k - 1] = "position")
             /\ (e[k] = "position" /\ lf.bounded)
                   => (k < Len(e) /\ e[k + 1] = "corrector")
             /\ e[k] \in {"gradient", "return"}
                   => (k > 1 /\ e[k - 1] = (IF lf.bounded THEN "corrector"
                                            ELSE "position"))
       /\ ~lf.bounded => lf.corrector_calls = 0
       /\ (lf.bounded /\ lf.pc = "returned") => lf.corrector_calls = lf.gradient_evaluations + 1

\* a call on a bounded prior with a pass of the loop has returned, its
\* corrector was called after each of the three position updates and reflected
\* the momentum
C27_Witness ==
    /\ lf.pc = "returned"
    /\ lf.bounded
    /\ lf.lower_bounds # None
    /\ lf.iterations = 2
    /\ lf.events = <<"position", "corrector", "gradient", "position", "corrector",
                     "gradient", "position", "corrector", "return">>
    /\ lf.heap[lf.returned[2]] # lf.arg_values[2]

\* the bounds the distribution holds are None or fit its dimensions, and every
\* upper bound lies above its lower bound
StoredBoundsValid ==
    /\ prior.lower_bounds.type \in {"NoneType", "ndarray"}
    /\ prior.upper_bounds.type \in {"NoneType", "ndarray"}
    /\ ~RejectedAfterSet(prior.lower_bounds, prior.upper_bounds, prior.dimensions)

\* C28 as stated: corrector acts on each dimension and on each bound
\* independently: a coordinate below its lower bound becomes 2*lower - c with
\* its momentum negated, a coordinate above its upper bound becomes
\* 2*upper - c with its momentum negated, and a dimension inside its bounds
\* keeps coordinate and momentum.
C28_CorrectorIndependentBounds ==
    (prior.call = "corrector" /\ prior.raised = "none" /\ StoredBoundsValid)
    => \A i \in 1..prior.dimensions :
          LET c == prior.arg_coordinates[i]
              m == prior.arg_momentum[i]
              below == prior.lower_bounds.type = "ndarray" /\ c < prior.lower_bounds.rows[i]
              above == prior.upper_bounds.type = "ndarray" /\ c > prior.upper_bounds.rows[i]
          IN /\ below => /\ prior.coordinates[i] = 2 * prior.lower_bounds.rows[i] - c
                         /\ prior.momentum[i] = 0 - m
             /\ above => /\ prior.coordinates[i] = 2 * prior.upper_bounds.rows[i] - c
                         /\ prior.momentum[i] = 0 - m
             /\ (~below /\ ~above) => /\ prior.coordinates[i] = c
                                      /\ prior.momentum[i] = m

\* C28 (amended): corrector acts on each dimension independently and on the
\* two bounds in turn: a coordinate below its lower bound becomes 2*lower - c
\* with its momentum negated; the coordinate that results is then compared
\* with the upper bound and, when above it, becomes 2*upper - c' with the
\* momentum negated once more; a dimension inside its bounds keeps coordinate
\* and momentum, so a call on an in-bounds state changes nothing; the bounds
\* themselves are never changed.
C28_CorrectorLowerThenUpper ==
    (prior.call = "corrector" /\ prior.raised = "none")
    => /\ prior.lower_bounds = prior.old_lower
       /\ prior.upper_bounds = prior.old_upper
       /\ \A i \in 1..prior.dimensions :
             LET c == prior.arg_coordinates[i]
                 m == prior.arg_momentum[i]
                 below == prior.lower_bounds.type = "ndarray" /\ c < prior.lower_bounds.rows[i]
                 c1 == IF below THEN 2 * prior.lower_bounds.rows[i] - c ELSE c
                 m1 == IF below THEN 0 - m ELSE m
                 above == prior.upper_bounds.type = "ndarray" /\ c1 > prior.upper_bounds.rows[i]
             IN /\ prior.coordinates[i] = (IF above THEN 2 * prior.upper_bounds.rows[i] - c1 ELSE c1)
                /\ prior.momentum[i] = (IF above THEN 0 - m1 ELSE m1)
                /\ (~below /\ ~above) => /\ prior.coordinates[i] = c
                                         /\ prior.momentum[i] = m

\* a call on two dimensions with bounds [0, 1] each: the first coordinate lay
\* below its lower bound by more than the width and took both corrections,
\* the second lay above its upper bound and took one
C28_Witness ==
    /\ prior.call = "corrector"
    /\ prior.raised = "none"
    /\ prior.dimensions = 2
    /\ prior.lower_bounds = Array(<<0, 0>>)
    /\ prior.upper_bounds = Array(<<1, 1>>)
    /\ prior.arg_coordinates = <<-2, 2>>
    /\ prior.coordinates = <<0, 0>>
    /\ prior.momentum[1] = prior.arg_momentum[1]
    /\ prior.momentum[2] = 0 - prior.arg_momentum[2]

\* C30: when update_bounds raises ValueError the distribution's lower_bounds
\* and upper_bounds are the same as before the call, and after any sequence of
\* update_bounds calls the stored bounds are None or of shape (dimensions, 1)
\* with every upper bound above its lower bound.
C30_RejectedBoundsLeaveNoTrace ==
    /\ (prior.call = "update_bounds" /\ prior.raised = "ValueError")
          => /\ prior.lower_bounds = prior.old_lower
             /\ prior.upper_bounds = prior.old_upper
    /\ StoredBoundsValid
====
